---- MODULE Spec2Model ----
(***************************************************************************)
(* A model of app/handler.py (RedisCommandHandler): one handler object per *)
(* server process, serving every connection of that process.  The master   *)
(* process serves the client connections Conns and the replica             *)
(* connections Replicas; each replica is a process of its own running the  *)
(* same handler class with is_replica set.                                 *)
(***************************************************************************)
EXTENDS Integers, Sequences, FiniteSets, TLC

(* ------------------------------ bounds --------------------------------- *)
\* commands the master accepts from its clients in one behaviour
MaxCmds == 5
\* longest transaction queue built in one behaviour
MaxQueue == 3
\* commands the master accepts from its clients in one behaviour of the
\* specification with replicas
MaxReplCmds == 2
\* buffers ordinary clients send to a replica in one behaviour
MaxReplicaCmds == 1
\* commands the master accepts from its clients in one behaviour of the
\* specification of streams
MaxStreamCmds == 3
\* commands in one buffer given to the decoder
MaxBufCmds == 3
\* commands the master accepts from its clients in one behaviour of the
\* specification of transactions with replicas
MaxDiscardCmds == 3
\* commands the master accepts from its clients in one behaviour of the
\* specification of WAIT among concurrent writes
MaxWaitCmds == 3

(* --------------------------- program constants -------------------------- *)
\* WAIT's poll interval in milliseconds: asyncio.sleep(min(0.1, remaining))
PollMs == 100
\* XREAD's poll interval in milliseconds: asyncio.sleep(0.2)
XreadPollMs == 200

Conns == {"c1", "c2"}
Replicas == {"r1"}
Keys == {"a", "s"}

(* ------------------------- values and conversions ----------------------- *)
Digit == <<"0", "1", "2", "3", "4", "5", "6", "7", "8", "9">>

RECURSIVE IntToStr(_)
\* str(n) for n >= 0
IntToStr(n) ==
    IF n < 10 THEN Digit[n + 1] ELSE IntToStr(n \div 10) \o Digit[(n % 10) + 1]

\* the integers the model converts: no timeout is above 1000 ms and no frame
\* of the model is longer than 40 bytes, so no offset exceeds MaxInt
MaxInt == 1000 + 40 * (MaxCmds + MaxReplCmds + MaxReplicaCmds + 2)

\* the decimal strings int() accepts among the strings of the model
IntStrings == {IntToStr(n) : n \in 0..MaxInt}

IsInt(s) == s \in IntStrings

\* int(s) for a decimal string
StrToInt(s) == CHOOSE n \in 0..MaxInt : IntToStr(n) = s

\* number of decimal digits of n >= 0, len(str(n))
NDigits(n) == Len(IntToStr(n))

RECURSIVE SumBulkNoTrailer(_, _)
\* the lengths of the elements without the "\r\n" that ends each of them
SumBulkNoTrailer(argv, i) ==
    IF i > Len(argv) THEN 0
    ELSE 1 + NDigits(Len(argv[i])) + 2 + Len(argv[i]) + SumBulkNoTrailer(argv, i + 1)

RECURSIVE SumBulk(_, _)
SumBulk(argv, i) ==
    IF i > Len(argv) THEN 0
    ELSE 1 + NDigits(Len(argv[i])) + 2 + Len(argv[i]) + 2 + SumBulk(argv, i + 1)

\* len(encode_array(argv)): "*<n>\r\n" then "$<len>\r\n<s>\r\n" per element
EncLen(argv) == 1 + NDigits(Len(argv)) + 2 + SumBulk(argv, 1)

(* ------------------------------- the RESP codec ------------------------- *)
\* bytes are one-character strings and a buffer is a sequence of them
CR == "\r"
LF == "\n"

RECURSIVE DigitsOf(_)
\* str(n) as bytes
DigitsOf(n) ==
    IF n < 10 THEN <<Digit[n + 1]>> ELSE Append(DigitsOf(n \div 10), Digit[(n % 10) + 1])

IsDigit(ch) == \E d \in 0..9 : Digit[d + 1] = ch

DigitVal(ch) == CHOOSE d \in 0..9 : Digit[d + 1] = ch

\* encode_bulk_string(w): "$<len>\r\n<w>\r\n"
EncodeBulk(w) == <<"$">> \o DigitsOf(Len(w)) \o <<CR, LF>> \o w \o <<CR, LF>>

RECURSIVE EncodeElems(_, _)
EncodeElems(argv, i) ==
    IF i > Len(argv) THEN <<>> ELSE EncodeBulk(argv[i]) \o EncodeElems(argv, i + 1)

\* encode_array(argv) for a list of strings: "*<n>\r\n" and the elements
EncodeArray(argv) == <<"*">> \o DigitsOf(Len(argv)) \o <<CR, LF>> \o EncodeElems(argv, 1)

RECURSIVE Concat(_, _)
\* "".join of the encodings of the commands of cmds from position i
Concat(cmds, i) ==
    IF i > Len(cmds) THEN <<>> ELSE EncodeArray(cmds[i]) \o Concat(cmds, i + 1)

RECURSIVE ReadInt(_, _, _)
\* the decimal number at position i up to its "\r\n", and the position after
ReadInt(buf, i, acc) ==
    IF IsDigit(buf[i]) THEN ReadInt(buf, i + 1, 10 * acc + DigitVal(buf[i]))
    ELSE [val |-> acc, next |-> i + 2]

\* the bulk string at position i: "$", its length, its bytes, "\r\n"
ReadBulk(buf, i) ==
    LET n == ReadInt(buf, i + 1, 0)
    IN  [val |-> SubSeq(buf, n.next, n.next + n.val - 1), next |-> n.next + n.val + 2]

RECURSIVE ReadElems(_, _, _, _)
ReadElems(buf, i, n, acc) ==
    IF n = 0 THEN [val |-> acc, next |-> i]
    ELSE LET b == ReadBulk(buf, i)
         IN  ReadElems(buf, b.next, n - 1, Append(acc, b.val))

\* RedisDecoder.decode on the array at position i: its elements, and the
\* position after it
DecodeArray(buf, i) ==
    LET n == ReadInt(buf, i + 1, 0)
    IN  ReadElems(buf, n.next, n.val, <<>>)

RECURSIVE multi_command_decoder(_, _)
\* RedisDecoder.multi_command_decoder from position i: one (argv,
\* byte_length) pair per top-level array until the buffer is exhausted
multi_command_decoder(buf, i) ==
    IF i > Len(buf) THEN <<>>
    ELSE LET r == DecodeArray(buf, i)
         IN  <<[argv |-> r.val, byte_length |-> r.next - i]>>
                 \o multi_command_decoder(buf, r.next)

\* the command arrays given to the codec: those of test_complex_multi_command,
\* SET a 1, and one with an empty element and a "*" and a "$" as payload
CodecArgvs ==
    {<<<<"R", "E", "P", "L", "C", "O", "N", "F">>, <<"G", "E", "T", "A", "C", "K">>, <<"*">>>>,
     <<<<"S", "E", "T">>, <<"m", "a", "n", "g", "o">>, <<"b", "l", "u", "e", "b", "e", "r", "r", "y">>>>,
     <<<<"S", "E", "T">>, <<"s", "t", "r", "a", "w", "b", "e", "r", "r", "y">>, <<"r", "a", "s", "p", "b", "e", "r", "r", "y">>>>,
     <<<<"S", "E", "T">>, <<"a">>, <<"1">>>>,
     <<<<"E", "C", "H", "O">>, <<>>, <<"*", "$", "1">>>>}

RECURSIVE SeqsUpTo(_, _)
\* the sequences over S of length 1..n
SeqsUpTo(S, n) ==
    IF n = 0 THEN {}
    ELSE LET shorter == SeqsUpTo(S, n - 1)
         IN  {<<x>> : x \in S} \cup shorter \cup {Append(q, x) : q \in shorter, x \in S}

Cmd(v, a) == [verb |-> v, args |-> a]

\* len(command_data) of the frame a client sends for a command
FrameLen(cmd) == EncLen(<<cmd.verb>> \o cmd.args)

(* --------------------------------- keyspace ----------------------------- *)
NoEntry == [t |-> "none", v |-> "", ids |-> <<>>]
StrVal(s) == [t |-> "string", v |-> s, ids |-> <<>>]
StreamVal(ids) == [t |-> "stream", v |-> "", ids |-> ids]

EmptyDb == [k \in Keys |-> NoEntry]

\* Database.set(key, value)
DbSet(d, k, s) == [d EXCEPT ![k] = StrVal(s)]

(* payloads a command function returns, by their python type *)
PStr(s) == [py |-> "str", s |-> s]
PInt(n) == [py |-> "int", s |-> IntToStr(n)]
PNone == [py |-> "none", s |-> ""]
PExc(m) == [py |-> "exc", s |-> m]
PList(xs) == [py |-> "list", s |-> "", items |-> xs]
PBytes(s) == [py |-> "bytes", s |-> s]

\* Database.get(key): the string value, or None
DbGet(d, k) == IF d[k].t = "string" THEN PStr(d[k].v) ELSE PNone

\* stream ids "<ms>-<seq>" as pairs
ParseId(s) ==
    CASE s = "0-0" -> <<0, 0>>
      [] s = "1-1" -> <<1, 1>>
      [] s = "1-2" -> <<1, 2>>
      [] s = "2-1" -> <<2, 1>>

IdLeq(x, y) == x[1] < y[1] \/ (x[1] = y[1] /\ x[2] <= y[2])

\* the id "<ms>-<seq>" of an entry
IdStr(id) == IntToStr(id[1]) \o "-" \o IntToStr(id[2])

\* Database.get_range_stream(key, "(<start>"): the ids of the entries above
\* start, in stream order
get_range_stream(d, k, start) ==
    LET Above(id) == ~IdLeq(id, start)
    IN  SelectSeq(d[k].ids, Above)

\* Database.add_stream(key, "<ms>-<seq>", ...): the id is used verbatim;
\* code is "ok", "small-first" or "small-top"
DbAddStream(d, k, idstr) ==
    LET id == ParseId(idstr)
        ids == d[k].ids
    IN  IF IdLeq(id, <<0, 0>>) THEN [db |-> d, code |-> "small-first"]
        ELSE IF Len(ids) > 0 /\ IdLeq(id, ids[Len(ids)])
             THEN [db |-> d, code |-> "small-top"]
        ELSE [db |-> [d EXCEPT ![k] = StreamVal(Append(ids, id))], code |-> "ok"]

(* ------------------------------ reply encoding -------------------------- *)
Wire(kind, s) == [kind |-> kind, s |-> s, elems |-> <<>>]

\* RedisEncoder.encode_array on a flat list: every scalar element becomes a
\* bulk string (the null bulk string for None)
encode_array(items) ==
    [kind |-> "array", s |-> "",
     elems |-> [i \in 1..Len(items) |->
                  IF items[i].py = "none" THEN Wire("nullbulk", "")
                  ELSE Wire("bulk", items[i].s)]]

\* RedisCommandHandler.encode(data, data_type)
encode(data, data_type) ==
    CASE data_type = "INTEGER" -> Wire("int", data.s)
      [] data_type = "BULK_STRING" ->
            IF data.py = "none" THEN Wire("nullbulk", "") ELSE Wire("bulk", data.s)
      [] data_type = "ARRAY" -> encode_array(data.items)
      [] data_type = "SIMPLE_STRING" -> Wire("simple", data.s)
      [] data_type = "ERROR" -> Wire("error", data.s)
      [] OTHER -> Wire("raw", data.s)

\* what the connection sees when a RedisException escapes handle()
Raised(m) == Wire("raise", m)

(* ------------------------------ command functions ----------------------- *)
\* the value of transaction_queue: None, or a list of (verb, argv)
TxNone == [open |-> FALSE, items |-> <<>>]
TxList(xs) == [open |-> TRUE, items |-> xs]

\* outcome of a command function on handler state (db, transaction_queue):
\* exc is set when it raised RedisException(data.s)
Out(d, q, type, data) == [db |-> d, tq |-> q, type |-> type, data |-> data, exc |-> FALSE]
Exc(d, q, m) == [db |-> d, tq |-> q, type |-> "ERROR", data |-> PExc(m), exc |-> TRUE]

ping(d, q, args) == Out(d, q, "SIMPLE_STRING", PStr("PONG"))

set(d, q, args) == Out(DbSet(d, args[1], args[2]), q, "SIMPLE_STRING", PStr("OK"))

get(d, q, args) == Out(d, q, "BULK_STRING", DbGet(d, args[1]))

increment(d, q, args) ==
    LET value == DbGet(d, args[1])
        text == IF value.py = "none" THEN "0" ELSE value.s
    IN  IF ~IsInt(text) THEN Exc(d, q, "value is not an integer or out of range")
        ELSE Out(DbSet(d, args[1], IntToStr(StrToInt(text) + 1)), q,
                 "INTEGER", PInt(StrToInt(text) + 1))

xadd(d, q, args) ==
    LET r == DbAddStream(d, args[1], args[2])
    IN  CASE r.code = "small-top" ->
               Exc(d, q, "The ID specified in XADD is equal or smaller than the target stream top item")
          [] r.code = "small-first" ->
               Exc(d, q, "The ID specified in XADD must be greater than 0-0")
          [] OTHER -> Out(r.db, q, "BULK_STRING", PStr(args[2]))

multi(d, q, args) == Out(d, TxList(<<>>), "SIMPLE_STRING", PStr("OK"))

discard(d, q, args) ==
    IF ~q.open THEN Exc(d, q, "DISCARD without MULTI")
    ELSE Out(d, TxNone, "SIMPLE_STRING", PStr("OK"))

\* psync(args, writer) on the handler's own state: the already encoded
\* FULLRESYNC line and RDB payload, of type None; the record it adds to the
\* registry is in ExecAfter and ReceivePsync
psync(d, q, args) == Out(d, q, "NONE", PBytes("FULLRESYNC"))

\* the verbs of kls_map
KlsMap == {"ping", "echo", "set", "get", "incr", "xadd", "xrange", "xread",
           "multi", "exec", "discard", "config", "keys", "info", "replconf",
           "psync", "wait", "type"}

kls(verb, d, q, args) ==
    CASE verb = "ping" -> ping(d, q, args)
      [] verb = "set" -> set(d, q, args)
      [] verb = "get" -> get(d, q, args)
      [] verb = "incr" -> increment(d, q, args)
      [] verb = "xadd" -> xadd(d, q, args)
      [] verb = "multi" -> multi(d, q, args)
      [] verb = "discard" -> discard(d, q, args)
      [] verb = "psync" -> psync(d, q, args)

\* result of _execute: (response, type), or raised when a RedisException
\* leaves _execute
Ret(d, q, type, data) == [db |-> d, tq |-> q, type |-> type, data |-> data, raised |-> FALSE]
Raise(d, q, m) == [db |-> d, tq |-> q, type |-> "ERROR", data |-> PExc(m), raised |-> TRUE]

\* _execute from get_command_kls on (execute_transaction set, or no
\* transaction open), for the verbs of SimpleVerbs and the unknown ones
get_command_kls(verb) == verb \in KlsMap

ExecuteCall(d, q, cmd) ==
    IF ~get_command_kls(cmd.verb) THEN Raise(d, q, "Invalid command")
    ELSE LET o == kls(cmd.verb, d, q, cmd.args)
         IN  Ret(o.db, o.tq, o.type, o.data)

\* where a stretch of exec()'s loop stops: "done" past the end of the list
\* with self.transaction_queue = None, "raised" by the command at position
\* i, "suspended" in the add_replica of the PSYNC at position i; `added`
\* tells whether a PSYNC of the stretch called add_replica
Stretch(d, q, responses, i, state, added) ==
    [db |-> d, tq |-> q, responses |-> responses, i |-> i, state |-> state, added |-> added]

RECURSIVE ExecLoop(_, _, _, _, _, _, _)
\* the for loop of exec over the list `items`, from position i, with
\* self.db = d, self.transaction_queue = q and the responses so far, up to
\* the PSYNC at position `stop` when its add_replica suspends (stop = 0: no
\* add_replica suspends)
ExecLoop(items, i, d, q, responses, stop, added) ==
    IF i > Len(items) THEN Stretch(d, TxNone, responses, i, "done", added)
    ELSE IF items[i].verb = "psync" /\ i = stop
    THEN Stretch(d, q, responses, i, "suspended", TRUE)
    ELSE LET r == ExecuteCall(d, q, items[i])
         IN  IF r.raised THEN Stretch(r.db, r.tq, responses, i, "raised", added)
             ELSE ExecLoop(items, i + 1, r.db, r.tq, Append(responses, r.data), stop,
                           added \/ items[i].verb = "psync")

\* what exec() hands back to _execute's caller when its loop has ended
ExecRet(s) ==
    IF s.state = "raised" THEN Raise(s.db, s.tq, "Invalid command")
    ELSE Ret(s.db, s.tq, "ARRAY", PList(s.responses))

exec(d, q, args) ==
    IF ~q.open THEN Ret(d, q, "ERROR", PExc("EXEC without MULTI"))
    ELSE ExecRet(ExecLoop(q.items, 1, d, q, <<>>, 0, FALSE))

\* _execute with MULTI treated like EXEC and DISCARD: a second MULTI is run
\* at once and empties the queue
ExecuteInnerMultiRuns(d, q, cmd) ==
    IF q.open
    THEN CASE cmd.verb = "exec" -> exec(d, q, cmd.args)
           [] cmd.verb \in {"discard", "multi"} ->
                LET o == kls(cmd.verb, d, q, cmd.args) IN Ret(o.db, o.tq, o.type, o.data)
           [] OTHER -> Ret(d, TxList(Append(q.items, cmd)), "SIMPLE_STRING", PStr("QUEUED"))
    ELSE IF cmd.verb = "exec" THEN exec(d, q, cmd.args)
    ELSE ExecuteCall(d, q, cmd)

\* _execute(command, command_arg) with execute_transaction = False
ExecuteInner(d, q, cmd) ==
    IF q.open
    THEN CASE cmd.verb = "exec" -> exec(d, q, cmd.args)
           [] cmd.verb = "discard" ->
                LET o == discard(d, q, cmd.args) IN Ret(o.db, o.tq, o.type, o.data)
           [] OTHER -> Ret(d, TxList(Append(q.items, cmd)), "SIMPLE_STRING", PStr("QUEUED"))
    ELSE IF cmd.verb = "exec" THEN exec(d, q, cmd.args)
    ELSE ExecuteCall(d, q, cmd)

\* execute(): the encoded reply the connection gets
execute(r) == IF r.raised THEN Raised(r.data.s) ELSE encode(r.data, r.type)

(* ------------------------------ the registry ---------------------------- *)
\* ConnectionRegistry: one record per replica writer; exec() runs a queued
\* PSYNC without a writer, and the record that creates is keyed by None
NoWriter == "None"
Writers == Replicas \cup {NoWriter}
NoRecord == [registered |-> FALSE, acked_offset |-> 0]

\* add_replica(writer, replication_id, offset)
add_replica(reg, r, offset) == [reg EXCEPT ![r] = [registered |-> TRUE, acked_offset |-> offset]]

\* get_replicas()
get_replicas(reg) == {r \in Writers : reg[r].registered}

\* check_replica_sync(target): the records with acked_offset >= target
check_replica_sync(reg, target) ==
    Cardinality({r \in get_replicas(reg) : reg[r].acked_offset >= target})

\* update_replica_offset(writer, n)
update_replica_offset(reg, r, n) ==
    IF reg[r].registered THEN [reg EXCEPT ![r].acked_offset = n] ELSE reg

\* broadcast(data): data is written to every registered replica writer
broadcast(reg, lk, data) ==
    [r \in Replicas |-> IF reg[r].registered THEN Append(lk[r], data) ELSE lk[r]]

\* the registry after broadcast(data): the write to the writer None fails and
\* its record is removed
AfterBroadcast(reg) == [reg EXCEPT ![NoWriter] = NoRecord]

(* --------------------------------- state -------------------------------- *)
VARIABLES
    db,                  \* master: self.db
    transaction_queue,   \* master: self.transaction_queue
    replication_offset,  \* master: self.replication_offset
    registry,            \* master: self.connection_registry
    pc,                  \* where the task of each client connection stands
    rpc,                 \* where the task of each replica connection stands
    cur,                 \* the command that task is handling
    wt,                  \* the locals of a running wait(): target, required, time left
    xr,                  \* the locals of the latest xread() of each connection
    ex,                  \* the locals of an exec() suspended in the PSYNC it runs
    link,                \* frames written to each replica writer, not yet read
    uplink,              \* replies each replica wrote upstream, not yet read
    rdb,                 \* replica: self.db
    rtq,                 \* replica: self.transaction_queue
    rlast,               \* replica: the buffer its latest handle() took, and the outcome
    codec,               \* replica: the commands of a buffer and what the decoder made of it
    bytes_processed,     \* replica: self.bytes_processed
    last,                \* the latest reply produced by the master: connection, command, reply
    steps,               \* commands received by the master so far
    rsteps,              \* commands ordinary clients sent to replicas so far
    inMulti,             \* history: a MULTI was handled and no EXEC or DISCARD since
    txOwner,             \* history: the connection whose MULTI opened the transaction
    fwdSetBytes,         \* history: total length of the SET frames handed to broadcast
    fwdAckBytes,         \* history: total length of the GETACK frames handed to broadcast
    fromMaster           \* history: total length of the commands each replica took from its link

vars == <<db, transaction_queue, replication_offset, registry, pc, rpc, cur, wt, xr, ex, link,
          uplink, rdb, rtq, rlast, codec, bytes_processed, last, steps, rsteps, inMulti,
          txOwner, fwdSetBytes, fwdAckBytes, fromMaster>>

masterVars == <<db, transaction_queue, replication_offset, registry, pc, rpc, cur, wt, xr, ex,
                last, steps, inMulti, txOwner, fwdSetBytes, fwdAckBytes>>
replicaVars == <<rdb, rtq, rlast, codec, bytes_processed, rsteps, fromMaster>>

\* the outcome of one handle() call on a replica: the commands of the buffer,
\* whether they were propagated, the replies returned, and whether an
\* exception left the call instead
Handled(cmds, propogated_command, responses, raised) ==
    [cmds |-> cmds, propogated |-> propogated_command, responses |-> responses,
     raised |-> raised]

NoCmd == Cmd("none", <<>>)
NoWait == [target |-> 0, required |-> 0, left |-> 0, sleep |-> 0]

\* the locals of xread(): stream key, exclusive start id, block_time in ms
\* (-1 for None), end_time in ms after start_time (-1 for infinite), the ms
\* passed since start_time, the poll ticks left of the current sleep; and,
\* as history, the ids the stream held at the call
Xread(k, start, block_time, end_time, elapsed, sleep, seen) ==
    [key |-> k, start |-> start, block_time |-> block_time, end_time |-> end_time,
     elapsed |-> elapsed, sleep |-> sleep, seen |-> seen]
NoXread == Xread("", <<0, 0>>, -1, -1, 0, 0, <<>>)

\* no exec() of the connection is suspended
NoExec == [on |-> FALSE, attached |-> FALSE, items |-> <<>>, i |-> 0, responses |-> <<>>]

\* a buffer not yet decoded, and a decoded one
Undecoded(cmds) == [cmds |-> cmds, out |-> <<>>, done |-> FALSE]
Decoded(cmds, out) == [cmds |-> cmds, out |-> out, done |-> TRUE]

\* RedisCommandHandler.__init__ on the master and on each replica
InitHandler ==
    /\ db = EmptyDb
    /\ transaction_queue = TxNone
    /\ replication_offset = 0
    /\ registry = [r \in Writers |-> NoRecord]
    /\ pc = [c \in Conns |-> "idle"]
    /\ rpc = [r \in Replicas |-> "idle"]
    /\ cur = [c \in Conns |-> NoCmd]
    /\ wt = [c \in Conns |-> NoWait]
    /\ xr = [c \in Conns |-> NoXread]
    /\ ex = [c \in Conns |-> NoExec]
    /\ link = [r \in Replicas |-> <<>>]
    /\ uplink = [r \in Replicas |-> <<>>]
    /\ rdb = [r \in Replicas |-> EmptyDb]
    /\ rtq = [r \in Replicas |-> TxNone]
    /\ rlast = [r \in Replicas |-> Handled(<<>>, FALSE, <<>>, FALSE)]
    /\ bytes_processed = [r \in Replicas |-> 0]
    /\ last = [conn |-> "none", cmd |-> NoCmd, reply |-> Wire("none", "")]
    /\ steps = 0
    /\ rsteps = 0
    /\ inMulti = FALSE
    /\ txOwner = "none"
    /\ fwdSetBytes = 0
    /\ fwdAckBytes = 0
    /\ fromMaster = [r \in Replicas |-> 0]

\* the servers after construction, no buffer at the decoder
Init == InitHandler /\ codec = Undecoded(<<>>)

\* the servers after construction, and a buffer of commands about to be
\* decoded in handle_replica
InitCodec == InitHandler /\ codec \in {Undecoded(cmds) : cmds \in SeqsUpTo(CodecArgvs, MaxBufCmds)}

\* command_arr = RedisDecoder().multi_command_decoder(command_data)
Decode ==
    /\ ~codec.done
    /\ codec.cmds # <<>>
    /\ codec' = Decoded(codec.cmds, multi_command_decoder(Concat(codec.cmds, 1), 1))
    /\ UNCHANGED <<rdb, rtq, rlast, bytes_processed, rsteps, fromMaster, link, uplink>>
    /\ UNCHANGED masterVars

(* ------------------------------ master: inputs -------------------------- *)
SetCmds == {Cmd("set", <<"a", "1">>), Cmd("set", <<"a", "x">>)}

\* commands whose function runs to its reply without suspending
PlainCmds ==
    {Cmd("incr", <<"a">>), Cmd("get", <<"a">>),
     Cmd("xadd", <<"s", "0-0", "f", "v">>), Cmd("xadd", <<"s", "1-1", "f", "v">>),
     Cmd("multi", <<>>), Cmd("exec", <<>>), Cmd("discard", <<>>),
     Cmd("foo", <<>>)}

\* tasks suspended inside write_to_replicas with a SET to execute
PendingSets == {c \in Conns : pc[c] = "write_to_replicas" /\ cur[c].verb = "set"}

\* the queue stays within MaxQueue
QueueRoom ==
    transaction_queue.open =>
        Len(transaction_queue.items) + Cardinality(PendingSets) < MaxQueue

(* ------------------------------ master: actions ------------------------- *)
Psync == Cmd("psync", <<"?", "-1">>)

\* self.transaction_queue names the same list object after a step as
\* before it: the step left it alone or appended one command to it
SameList(q, q2) ==
    /\ q.open
    /\ q2.open
    /\ \/ q2 = q
       \/ /\ Len(q2.items) = Len(q.items) + 1
          /\ SubSeq(q2.items, 1, Len(q.items)) = q.items

\* the suspended exec() loops after a step that took self.transaction_queue
\* from q to q2: a loop iterates the list object it started on, so when the
\* attribute is given another object (multi, discard, the end of an exec)
\* the loop keeps the list as it was
Detach(e, q, q2) ==
    [c \in Conns |->
        IF e[c].on /\ e[c].attached /\ ~SameList(q, q2)
        THEN [e[c] EXCEPT !.attached = FALSE, !.items = q.items]
        ELSE e[c]]

\* the positions after i where exec()'s loop over L may suspend: the queued
\* PSYNCs, or nowhere (0)
Stops(L, i) == {0} \cup {j \in (i + 1)..Len(L) : L[j].verb = "psync"}

\* the list a suspended exec() of connection c iterates
ExecList(c) == IF ex[c].attached THEN transaction_queue.items ELSE ex[c].items

\* the state after a stretch s of the exec() of connection c over the list
\* L.  A PSYNC run from the queue is called with writer = None and adds a
\* record for it at the current offset.  Suspended in add_replica, the task
\* has replied nothing and the queue is as the loop left it; at the end of
\* the loop, or when a command raised, the reply goes out
ExecAfter(c, cmd, L, attached, s) ==
    /\ db' = s.db
    /\ transaction_queue' = s.tq
    /\ registry' = (IF s.added THEN add_replica(registry, NoWriter, replication_offset)
                    ELSE registry)
    /\ IF s.state = "suspended"
       THEN /\ ex' = [Detach(ex, transaction_queue, s.tq) EXCEPT ![c] =
                        [on |-> TRUE,
                         attached |-> attached /\ s.tq = transaction_queue,
                         items |-> IF attached /\ s.tq = transaction_queue THEN <<>> ELSE L,
                         i |-> s.i,
                         responses |-> s.responses]]
            /\ UNCHANGED <<last, inMulti, txOwner>>
       ELSE /\ ex' = [Detach(ex, transaction_queue, s.tq) EXCEPT ![c] = NoExec]
            /\ last' = [conn |-> c, cmd |-> cmd, reply |-> execute(ExecRet(s))]
            /\ inMulti' = FALSE
            /\ txOwner' = (IF ~s.tq.open THEN "none" ELSE txOwner)

\* handle_master_command from execute() on: _execute, encode, reply.  An
\* EXEC with a transaction open runs its loop to the end, or up to a queued
\* PSYNC whose add_replica suspends
Execute(c, cmd) ==
    IF cmd.verb = "exec" /\ transaction_queue.open
    THEN \E stop \in Stops(transaction_queue.items, 0) :
            ExecAfter(c, cmd, transaction_queue.items, TRUE,
                      ExecLoop(transaction_queue.items, 1, db, transaction_queue, <<>>,
                               stop, FALSE))
    ELSE LET r == ExecuteInner(db, transaction_queue, cmd)
         IN  /\ db' = r.db
             /\ transaction_queue' = r.tq
             /\ registry' = registry
             /\ ex' = Detach(ex, transaction_queue, r.tq)
             /\ last' = [conn |-> c, cmd |-> cmd, reply |-> execute(r)]
             /\ inMulti' = (IF cmd.verb = "multi" THEN TRUE
                            ELSE IF cmd.verb \in {"exec", "discard"} THEN FALSE
                            ELSE inMulti)
             /\ txOwner' = (IF ~r.tq.open THEN "none"
                            ELSE IF ~transaction_queue.open THEN c
                            ELSE txOwner)

\* a command outside broadcast_set arrives on connection c; the task is
\* done with it unless its EXEC is suspended in add_replica
ReceiveCommand(c, cmd) ==
    /\ pc[c] = "idle"
    /\ steps < MaxCmds
    /\ cmd.verb \notin {"exec", "discard"} => QueueRoom
    /\ steps' = steps + 1
    /\ Execute(c, cmd)
    /\ pc' = (IF ex'[c].on THEN [pc EXCEPT ![c] = "add_replica"] ELSE pc)
    /\ cur' = (IF ex'[c].on THEN [cur EXCEPT ![c] = cmd] ELSE cur)
    /\ UNCHANGED <<xr, rpc, replication_offset, wt, link, uplink,
                   fwdSetBytes, fwdAckBytes>>
    /\ UNCHANGED replicaVars

\* the add_replica of a PSYNC that connection c's exec() runs returns: the
\* PSYNC's reply joins the responses and the loop goes on over its list,
\* the commands queued meanwhile included, to the end or to the next
\* add_replica that suspends
ExecResumed(c) ==
    /\ pc[c] = "add_replica"
    /\ ex[c].on
    /\ \E stop \in Stops(ExecList(c), ex[c].i) :
          ExecAfter(c, cur[c], ExecList(c), ex[c].attached,
                    ExecLoop(ExecList(c), ex[c].i + 1, db, transaction_queue,
                             Append(ex[c].responses,
                                    psync(db, transaction_queue, Psync.args).data),
                             stop, FALSE))
    /\ pc' = (IF ex'[c].on THEN pc ELSE [pc EXCEPT ![c] = "idle"])
    /\ cur' = (IF ex'[c].on THEN cur ELSE [cur EXCEPT ![c] = NoCmd])
    /\ UNCHANGED <<xr, rpc, replication_offset, wt, link, uplink, steps,
                   fwdSetBytes, fwdAckBytes>>
    /\ UNCHANGED replicaVars

\* a SET arrives on connection c: write_to_replicas(command_data) up to the
\* await of broadcast
ReceiveSet(c, cmd) ==
    /\ pc[c] = "idle"
    /\ steps < MaxCmds
    /\ QueueRoom
    /\ steps' = steps + 1
    /\ link' = broadcast(registry, link, cmd)
    /\ registry' = AfterBroadcast(registry)
    /\ fwdSetBytes' = fwdSetBytes + FrameLen(cmd)
    /\ pc' = [pc EXCEPT ![c] = "write_to_replicas"]
    /\ cur' = [cur EXCEPT ![c] = cmd]
    /\ UNCHANGED <<xr, ex, rpc, db, transaction_queue, replication_offset, wt, uplink,
                   last, inMulti, txOwner, fwdAckBytes>>
    /\ UNCHANGED replicaVars

\* the offset counting frames instead of bytes
OffsetAfterWriteByOne(offset, data) == offset + 1

\* write_to_replicas after the await: self.replication_offset += len(data)
OffsetAfterWrite(offset, data) == offset + FrameLen(data)

\* the broadcast of connection c's SET returns: the offset advances and the
\* SET is executed
SetWritten(c) ==
    /\ pc[c] = "write_to_replicas"
    /\ cur[c].verb = "set"
    /\ replication_offset' = OffsetAfterWrite(replication_offset, cur[c])
    /\ Execute(c, cur[c])
    /\ pc' = [pc EXCEPT ![c] = "idle"]
    /\ cur' = [cur EXCEPT ![c] = NoCmd]
    /\ UNCHANGED <<xr, rpc, wt, link, uplink, steps, fwdSetBytes, fwdAckBytes>>
    /\ UNCHANGED replicaVars

(* ------------------------------ master: WAIT ---------------------------- *)
\* time is counted in units of 50 ms; a running wait() keeps the time left to
\* its end_time and to the end of its current sleep
Units(ms) == ms \div 50

Min(x, y) == IF x < y THEN x ELSE y

WaitCmds == {Cmd("wait", <<n, t>>) : n \in {"0", "1"}, t \in {"0", "150"}}

GetAck == Cmd("replconf", <<"getack", "*">>)

\* the loop's exit test with > in place of >=
WaitDoneOffByOne(replicas_synced, required_min_sync, left) ==
    replicas_synced > required_min_sync \/ left = 0

\* the loop left on its deadline only
WaitDoneOnDeadline(replicas_synced, required_min_sync, left) == left = 0

\* the two exit tests of the while loop of wait(): enough replicas synced, or
\* current_time >= end_time
WaitDone(replicas_synced, required_min_sync, left) ==
    replicas_synced >= required_min_sync \/ left = 0

\* a pass of the loop that reads self.replication_offset again as its target
WaitPollRetarget(c) ==
    LET replicas_synced == check_replica_sync(registry, replication_offset)
    IN  IF WaitDone(replicas_synced, wt[c].required, wt[c].left)
        THEN /\ last' = [conn |-> c, cmd |-> cur[c],
                         reply |-> encode(PInt(replicas_synced), "INTEGER")]
             /\ pc' = [pc EXCEPT ![c] = "idle"]
             /\ cur' = [cur EXCEPT ![c] = NoCmd]
             /\ wt' = [wt EXCEPT ![c] = NoWait]
        ELSE /\ pc' = [pc EXCEPT ![c] = "sleep"]
             /\ wt' = [wt EXCEPT ![c].sleep = Min(Units(PollMs), wt[c].left),
                                 ![c].target = replication_offset]
             /\ UNCHANGED <<last, cur>>

\* one pass of the while loop of wait() for connection c, with the registry
\* as it is now: return the count, or sleep
WaitPoll(c) ==
    LET replicas_synced == check_replica_sync(registry, wt[c].target)
    IN  IF WaitDone(replicas_synced, wt[c].required, wt[c].left)
        THEN /\ last' = [conn |-> c, cmd |-> cur[c],
                         reply |-> encode(PInt(replicas_synced), "INTEGER")]
             /\ pc' = [pc EXCEPT ![c] = "idle"]
             /\ cur' = [cur EXCEPT ![c] = NoCmd]
             /\ wt' = [wt EXCEPT ![c] = NoWait]
        ELSE /\ pc' = [pc EXCEPT ![c] = "sleep"]
             /\ wt' = [wt EXCEPT ![c].sleep = Min(Units(PollMs), wt[c].left)]
             /\ UNCHANGED <<last, cur>>

\* wait() without its early return
ShortCircuitNever(target_offset) == FALSE

\* the early return of wait(): if target_offset == 0
ShortCircuit(target_offset) == target_offset = 0

\* wait() on connection c, called by _execute with no transaction open: up to
\* its return for target 0, else up to the await of broadcast
WaitCall(c, cmd) ==
    /\ pc[c] = "idle"
    /\ steps < MaxCmds
    /\ steps' = steps + 1
    /\ LET required_min_sync == StrToInt(cmd.args[1])
           timeout == Units(StrToInt(cmd.args[2]))
           target_offset == replication_offset
       IN  IF ShortCircuit(target_offset)
           THEN /\ last' = [conn |-> c, cmd |-> cmd,
                            reply |-> encode(PInt(Cardinality(get_replicas(registry))), "INTEGER")]
                /\ UNCHANGED <<pc, cur, wt, link, registry, fwdAckBytes>>
           ELSE /\ wt' = [wt EXCEPT ![c] = [target |-> target_offset,
                                            required |-> required_min_sync,
                                            left |-> timeout, sleep |-> 0]]
                /\ link' = broadcast(registry, link, GetAck)
                /\ registry' = AfterBroadcast(registry)
                /\ fwdAckBytes' = fwdAckBytes + FrameLen(GetAck)
                /\ pc' = [pc EXCEPT ![c] = "write_to_replicas"]
                /\ cur' = [cur EXCEPT ![c] = cmd]
                /\ UNCHANGED last
    /\ UNCHANGED <<xr, ex, rpc, db, transaction_queue, replication_offset, uplink,
                   inMulti, txOwner, fwdSetBytes>>
    /\ UNCHANGED replicaVars

\* a WAIT arrives on connection c: with a transaction open _execute appends
\* it to the queue and replies QUEUED like any other command, else wait()
\* runs.  (A WAIT or a REPLCONF that exec() takes from the queue is not
\* followed: no specification sends them inside a transaction.)
ReceiveWait(c, cmd) ==
    IF transaction_queue.open THEN ReceiveCommand(c, cmd) ELSE WaitCall(c, cmd)

\* the broadcast of connection c's GETACK returns: the offset advances and
\* the while loop is entered
WaitWritten(c) ==
    /\ pc[c] = "write_to_replicas"
    /\ cur[c].verb = "wait"
    /\ replication_offset' = OffsetAfterWrite(replication_offset, GetAck)
    /\ WaitPoll(c)
    /\ UNCHANGED <<xr, ex, rpc, db, transaction_queue, registry, link, uplink, steps,
                   inMulti, txOwner, fwdSetBytes, fwdAckBytes>>
    /\ UNCHANGED replicaVars

\* the sleep of connection c's wait() ends: next pass of the loop
WaitWake(c) ==
    /\ pc[c] = "sleep"
    /\ wt[c].sleep = 0
    /\ WaitPoll(c)
    /\ UNCHANGED <<xr, ex, rpc, db, transaction_queue, replication_offset, registry, link,
                   uplink, steps, inMulti, txOwner, fwdSetBytes, fwdAckBytes>>
    /\ UNCHANGED replicaVars

\* the connections inside wait()
Waiting == {c \in Conns : pc[c] = "sleep" \/ (pc[c] = "write_to_replicas" /\ cur[c].verb = "wait")}

\* 50 ms pass
Tick ==
    /\ \E c \in Waiting : wt[c].left > 0
    /\ wt' = [c \in Conns |->
                IF c \in Waiting
                THEN [wt[c] EXCEPT !.left = IF @ > 0 THEN @ - 1 ELSE 0,
                                   !.sleep = IF @ > 0 THEN @ - 1 ELSE 0]
                ELSE wt[c]]
    /\ UNCHANGED <<xr, ex, rpc, db, transaction_queue, replication_offset, registry, pc, cur,
                   link, uplink, last, steps, inMulti, txOwner, fwdSetBytes,
                   fwdAckBytes>>
    /\ UNCHANGED replicaVars

(* ------------------------------ master: XREAD --------------------------- *)
\* args.index(x), 0 when x is not in args
IndexOf(args, x) ==
    IF \E i \in 1..Len(args) : args[i] = x
    THEN CHOOSE i \in 1..Len(args) : args[i] = x /\ \A j \in 1..(i - 1) : args[j] # x
    ELSE 0

\* XREAD [BLOCK ms] STREAMS s id, on one stream
XreadCmds ==
    {Cmd("xread", <<"streams", "s", id>>) : id \in {"0-0", "$"}}
        \cup {Cmd("xread", <<"block", t, "streams", "s", id>>) :
                 t \in {"0", "500", "1000"}, id \in {"0-0", "$"}}

XaddCmds == {Cmd("xadd", <<"s", id, "f", "v">>) : id \in {"1-1", "1-2", "2-1"}}

\* block_time: int(args[block_index + 1]), -1 for None
BlockTime(args) ==
    LET block_index == IndexOf(args, "block")
    IN  IF block_index = 0 THEN -1 ELSE StrToInt(args[block_index + 1])

\* end_time - start_time in ms: block_time // 1000 seconds, and infinite (-1)
\* for a block_time of zero
EndTime(block_time) ==
    IF block_time = 0 THEN -1 ELSE (block_time \div 1000) * 1000

\* current_time > end_time for the locals x; late tells whether the clock
\* has moved on since the time counted in x.elapsed was reached
Expired(x, late) ==
    /\ x.end_time # -1
    /\ IF late THEN x.elapsed >= x.end_time ELSE x.elapsed > x.end_time

\* max(self.db.data[stream_key].keys())
Top(d, k) == d[k].ids[Len(d[k].ids)]

\* the reply [[key, entries]] of xread as an array: the key, and the ids of
\* its entries in order
StreamReply(k, stream_data) ==
    [kind |-> "array", s |-> k,
     elems |-> [i \in 1..Len(stream_data) |-> Wire("bulk", IdStr(stream_data[i]))]]

\* xread() returns on connection c
XreadReturn(c, cmd, x, reply) ==
    /\ last' = [conn |-> c, cmd |-> cmd, reply |-> reply]
    /\ pc' = [pc EXCEPT ![c] = "idle"]
    /\ cur' = [cur EXCEPT ![c] = NoCmd]
    /\ xr' = [xr EXCEPT ![c] = x]

\* one pass of the while loop of xread() on connection c with the locals x
XreadPass(c, cmd, x) ==
    LET stream_data == get_range_stream(db, x.key, x.start)
    IN  IF stream_data # <<>>
        THEN XreadReturn(c, cmd, x, StreamReply(x.key, stream_data))
        ELSE IF x.block_time = -1
        THEN XreadReturn(c, cmd, x, encode(PNone, "BULK_STRING"))
        ELSE \E late \in BOOLEAN :
                IF Expired(x, late)
                THEN XreadReturn(c, cmd, x, encode(PNone, "BULK_STRING"))
                ELSE /\ pc' = [pc EXCEPT ![c] = "xread_sleep"]
                     /\ cur' = [cur EXCEPT ![c] = cmd]
                     /\ xr' = [xr EXCEPT ![c] = [x EXCEPT !.sleep = 1]]
                     /\ UNCHANGED last

\* an XREAD with well-formed arguments arrives on connection c with no
\* transaction open: xread() up to its return or its first sleep.  The
\* lookup of `$` on a key that holds no stream raises an exception that is
\* not a RedisException.
ReceiveXread(c, cmd) ==
    /\ pc[c] = "idle"
    /\ steps < MaxCmds
    /\ ~transaction_queue.open
    /\ steps' = steps + 1
    /\ LET streams_index == IndexOf(cmd.args, "streams")
           stream_args == SubSeq(cmd.args, streams_index + 1, Len(cmd.args))
           stream_key == stream_args[1]
           val == stream_args[2]
           block_time == BlockTime(cmd.args)
       IN  IF val = "$" /\ db[stream_key].t # "stream"
           THEN /\ last' = [conn |-> c, cmd |-> cmd, reply |-> Raised("KeyError")]
                /\ UNCHANGED <<pc, cur, xr>>
           ELSE XreadPass(c, cmd,
                          Xread(stream_key,
                                IF val = "$" THEN Top(db, stream_key) ELSE ParseId(val),
                                block_time, EndTime(block_time), 0, 0,
                                db[stream_key].ids))
    /\ UNCHANGED <<ex, rpc, db, transaction_queue, replication_offset, registry, wt, link,
                   uplink, inMulti, txOwner, fwdSetBytes, fwdAckBytes>>
    /\ UNCHANGED replicaVars

\* the sleep of connection c's xread() ends: next pass of the loop
XreadWake(c) ==
    /\ pc[c] = "xread_sleep"
    /\ xr[c].sleep = 0
    /\ XreadPass(c, cur[c], xr[c])
    /\ UNCHANGED <<ex, rpc, db, transaction_queue, replication_offset, registry, wt, link,
                   uplink, steps, inMulti, txOwner, fwdSetBytes, fwdAckBytes>>
    /\ UNCHANGED replicaVars

\* the connections asleep inside xread()
Reading == {c \in Conns : pc[c] = "xread_sleep"}

\* one poll interval passes once every task that was ready has run; the time
\* of an xread() without deadline is not counted
TickX ==
    /\ Reading # {}
    /\ \A c \in Reading : xr[c].sleep > 0
    /\ xr' = [c \in Conns |->
                IF c \in Reading
                THEN [xr[c] EXCEPT !.sleep = @ - 1,
                                   !.elapsed = IF xr[c].end_time = -1 THEN @
                                               ELSE @ + XreadPollMs]
                ELSE xr[c]]
    /\ UNCHANGED <<ex, rpc, db, transaction_queue, replication_offset, registry, pc, cur,
                   wt, link, uplink, last, steps, inMulti, txOwner, fwdSetBytes,
                   fwdAckBytes>>
    /\ UNCHANGED replicaVars

(* --------------------------- master: replica links ---------------------- *)
\* PSYNC arrives on replica r's connection.  With a transaction open _execute
\* appends it to the queue and the reply is QUEUED: no record is created.
\* Else psync() runs up to the await of add_replica, which creates the
\* record; the FULLRESYNC line and the RDB payload are what psync() returns
\* after it
ReceivePsync(r) ==
    /\ rpc[r] = "idle"
    /\ transaction_queue.open => QueueRoom
    /\ IF transaction_queue.open
       THEN /\ transaction_queue' = ExecuteInner(db, transaction_queue, Psync).tq
            /\ rpc' = [rpc EXCEPT ![r] = "synced"]
            /\ UNCHANGED registry
       ELSE /\ registry' = add_replica(registry, r, replication_offset)
            /\ rpc' = [rpc EXCEPT ![r] = "add_replica"]
            /\ UNCHANGED transaction_queue
    /\ UNCHANGED <<xr, ex, db, replication_offset, pc, cur, wt, link,
                   uplink, last, steps, inMulti, txOwner, fwdSetBytes, fwdAckBytes>>
    /\ UNCHANGED replicaVars

\* psync() returns and its reply, FULLRESYNC and the RDB payload, is written
\* to replica r's writer
PsyncReplied(r) ==
    /\ rpc[r] = "add_replica"
    /\ rpc' = [rpc EXCEPT ![r] = "synced"]
    /\ UNCHANGED <<xr, ex, db, transaction_queue, replication_offset, registry, pc, cur, wt,
                   link, uplink, last, steps, inMulti, txOwner, fwdSetBytes,
                   fwdAckBytes>>
    /\ UNCHANGED replicaVars

\* the reply is the array REPLCONF ACK <n>
IsAck(w) ==
    /\ w.kind = "array"
    /\ Len(w.elems) = 3
    /\ w.elems[1].s = "REPLCONF"
    /\ w.elems[2].s = "ACK"

\* get_command on what a replica wrote upstream: REPLCONF with its arguments,
\* or the lowered text of a simple string
UplinkCmd(w) ==
    IF IsAck(w) THEN Cmd("replconf", <<"ACK", w.elems[3].s>>) ELSE Cmd("queued", <<>>)

\* the master reads k of the replies replica r wrote upstream as one buffer:
\* handle_master_command decodes one value, the first, and the rest of the
\* buffer is not looked at.  With a transaction open _execute appends the
\* command to the queue.  Else REPLCONF ACK n runs replconf_ack(), which has
\* no reply; anything else has no handler and leaves the registry as it is
ReceiveAck(r, k) ==
    /\ k \in 1..Len(uplink[r])
    /\ transaction_queue.open => QueueRoom
    /\ IF transaction_queue.open
       THEN /\ transaction_queue' =
                   ExecuteInner(db, transaction_queue, UplinkCmd(Head(uplink[r]))).tq
            /\ UNCHANGED registry
       ELSE /\ registry' =
                   (IF IsAck(Head(uplink[r]))
                    THEN update_replica_offset(registry, r,
                                               StrToInt(Head(uplink[r]).elems[3].s))
                    ELSE registry)
            /\ UNCHANGED transaction_queue
    /\ uplink' = [uplink EXCEPT ![r] = SubSeq(@, k + 1, Len(@))]
    /\ UNCHANGED <<xr, ex, rpc, db, replication_offset, pc, cur, wt, link,
                   last, steps, inMulti, txOwner, fwdSetBytes, fwdAckBytes>>
    /\ UNCHANGED replicaVars

(* --------------------------------- replica ------------------------------ *)
\* the buffers an ordinary client sends to a replica: one command, or several
\* back to back
ReplicaClientBuffers ==
    {<<Cmd("multi", <<>>)>>,
     <<Cmd("get", <<"a">>)>>,
     <<Cmd("get", <<"a">>), Cmd("get", <<"a">>)>>,
     <<Cmd("foo", <<>>), Cmd("set", <<"a", "x">>)>>,
     <<Cmd("set", <<"a", "x">>), Cmd("foo", <<>>), Cmd("get", <<"a">>)>>}

\* replconf_getack(): the reply to REPLCONF GETACK
replconf_getack(bp) == PList(<<PStr("REPLCONF"), PStr("ACK"), PStr(IntToStr(bp))>>)

\* the advance of bytes_processed for one command of length comm_length,
\* propagated or not
BytesAfter(bp, comm_length, propogated_command) == bp + comm_length

\* the reply built after the command's own length has been counted
ReplicaExecuteCounted(d, q, bp, cmd) ==
    IF cmd.verb = "replconf" /\ ~q.open
    THEN Ret(d, q, "ARRAY", replconf_getack(bp + FrameLen(cmd)))
    ELSE ExecuteInner(d, q, cmd)

\* execute(comm, comm_arr) on a replica, for one command of handle_replica's
\* loop: REPLCONF GETACK outside a transaction, or _execute as on the master
ReplicaExecute(d, q, bp, cmd) ==
    IF cmd.verb = "replconf" /\ ~q.open
    THEN Ret(d, q, "ARRAY", replconf_getack(bp))
    ELSE ExecuteInner(d, q, cmd)

\* the test of handle_replica on a response: not propogated_command or comm in
\* reply_back_commands
Keep(propogated_command, cmd) == ~propogated_command \/ cmd.verb = "replconf"

RECURSIVE handle_replica(_, _, _, _, _, _, _)
\* the body of handle_replica's loop for the command at position i, r being
\* what execute() made of it: the response is kept or dropped, the command's
\* length is added to bytes_processed, and the loop goes on; when execute()
\* raised, the call ends with the state execute() left (what an EXEC ran
\* before it raised stays) and this command's length is not counted
HandleOne(cmds, i, d, q, bp, responses, propogated_command, r) ==
    IF r.raised
    THEN [db |-> r.db, tq |-> r.tq, bytes_processed |-> bp, responses |-> <<>>,
          raised |-> TRUE]
    ELSE handle_replica(cmds, i + 1, r.db, r.tq,
                        BytesAfter(bp, FrameLen(cmds[i]), propogated_command),
                        IF Keep(propogated_command, cmds[i])
                        THEN Append(responses, execute(r)) ELSE responses,
                        propogated_command)

\* handle_replica on the commands `cmds` from position i, with self.db = d,
\* self.transaction_queue = q, self.bytes_processed = bp and the responses so
\* far; an exception of execute() ends the call with no responses returned
handle_replica(cmds, i, d, q, bp, responses, propogated_command) ==
    IF i > Len(cmds)
    THEN [db |-> d, tq |-> q, bytes_processed |-> bp, responses |-> responses,
          raised |-> FALSE]
    ELSE HandleOne(cmds, i, d, q, bp, responses, propogated_command,
                   ReplicaExecute(d, q, bp, cmds[i]))

RECURSIVE SumFrameLen(_, _)
\* total length of the frames of a buffer
SumFrameLen(frames, i) ==
    IF i > Len(frames) THEN 0 ELSE FrameLen(frames[i]) + SumFrameLen(frames, i + 1)

\* replica r after handle_replica has come to res on the buffer cmds
ReplicaAfter(r, cmds, propogated_command, res) ==
    /\ rdb' = [rdb EXCEPT ![r] = res.db]
    /\ rtq' = [rtq EXCEPT ![r] = res.tq]
    /\ bytes_processed' = [bytes_processed EXCEPT ![r] = res.bytes_processed]
    /\ rlast' = [rlast EXCEPT ![r] = Handled(cmds, propogated_command,
                                             res.responses, res.raised)]

\* handle() on replica r for the buffer cmds
ReplicaRun(r, cmds, propogated_command) ==
    ReplicaAfter(r, cmds, propogated_command,
                 handle_replica(cmds, 1, rdb[r], rtq[r], bytes_processed[r], <<>>,
                                propogated_command))

\* replica r, its handshake done, reads the first k frames of its link as one
\* buffer; what handle() returns is written upstream
ReplicaHandle(r, k) ==
    /\ rpc[r] = "synced"
    /\ k \in 1..Len(link[r])
    /\ ReplicaRun(r, SubSeq(link[r], 1, k), TRUE)
    /\ uplink' = [uplink EXCEPT ![r] = @ \o rlast'[r].responses]
    /\ fromMaster' = [fromMaster EXCEPT ![r] = @ + SumFrameLen(SubSeq(link[r], 1, k), 1)]
    /\ link' = [link EXCEPT ![r] = SubSeq(@, k + 1, Len(@))]
    /\ UNCHANGED <<rsteps, codec>>
    /\ UNCHANGED masterVars

\* an ordinary client sends a buffer to replica r: handle_replica with
\* propogated_command = False
ReplicaClientCommand(r, buf) ==
    /\ rsteps < MaxReplicaCmds
    /\ rsteps' = rsteps + 1
    /\ ReplicaRun(r, buf, FALSE)
    /\ UNCHANGED <<link, uplink, fromMaster, codec>>
    /\ UNCHANGED masterVars

(* ------------------------------ specifications -------------------------- *)
\* the master alone: transactions and the keyspace
NextTx ==
    \/ \E c \in Conns, cmd \in PlainCmds : ReceiveCommand(c, cmd)
    \/ \E c \in Conns, cmd \in SetCmds : ReceiveSet(c, cmd)
    \/ \E c \in Conns : SetWritten(c)

SpecTx == Init /\ [][NextTx]_vars

\* the master with its replicas: propagation, offsets and WAIT
NextRepl ==
    \/ \E c \in Conns : steps < MaxReplCmds /\ ReceiveSet(c, Cmd("set", <<"a", "1">>))
    \/ \E c \in Conns : SetWritten(c)
    \/ \E c \in Conns : steps < MaxReplCmds /\ ReceiveCommand(c, Cmd("get", <<"a">>))
    \/ \E c \in Conns, cmd \in WaitCmds : steps < MaxReplCmds /\ ReceiveWait(c, cmd)
    \/ \E c \in Conns : WaitWritten(c)
    \/ \E c \in Conns : WaitWake(c)
    \/ Tick
    \/ \E r \in Replicas : ReceivePsync(r)
    \/ \E r \in Replicas : PsyncReplied(r)
    \/ \E r \in Replicas, k \in 1..MaxReplCmds : ReceiveAck(r, k)
    \/ \E r \in Replicas, k \in 1..MaxReplCmds : ReplicaHandle(r, k)

SpecRepl == Init /\ [][NextRepl]_vars

\* the event loop runs every task that is ready, and time passes
SpecReplFair ==
    /\ SpecRepl
    /\ WF_vars(Tick)
    /\ \A c \in Conns : WF_vars(WaitWritten(c)) /\ WF_vars(WaitWake(c))

\* WAIT among the writes of other connections: the master, its replica links
\* and the replicas reading them
NextWait ==
    \/ \E c \in Conns : steps < MaxWaitCmds /\ ReceiveSet(c, Cmd("set", <<"a", "1">>))
    \/ \E c \in Conns : SetWritten(c)
    \/ \E c \in Conns, cmd \in WaitCmds : steps < MaxWaitCmds /\ ReceiveWait(c, cmd)
    \/ \E c \in Conns : WaitWritten(c)
    \/ \E c \in Conns : WaitWake(c)
    \/ Tick
    \/ \E r \in Replicas : ReceivePsync(r)
    \/ \E r \in Replicas : PsyncReplied(r)
    \/ \E r \in Replicas, k \in 1..MaxWaitCmds : ReceiveAck(r, k)
    \/ \E r \in Replicas, k \in 1..MaxWaitCmds : ReplicaHandle(r, k)

SpecWait == Init /\ [][NextWait]_vars

\* a replica between its master and its own clients: propagated buffers and
\* the buffers of ordinary clients
NextReplica ==
    \/ \E c \in Conns : steps < MaxReplCmds /\ ReceiveSet(c, Cmd("set", <<"a", "1">>))
    \/ \E c \in Conns : SetWritten(c)
    \/ \E c \in Conns : steps < MaxReplCmds /\ ReceiveWait(c, Cmd("wait", <<"0", "0">>))
    \/ \E c \in Conns : steps < MaxReplCmds /\ ReceiveCommand(c, Cmd("foo", <<>>))
    \/ \E c \in Conns : WaitWritten(c)
    \/ \E r \in Replicas : ReceivePsync(r)
    \/ \E r \in Replicas : PsyncReplied(r)
    \/ \E r \in Replicas, k \in 1..MaxReplCmds : ReceiveAck(r, k)
    \/ \E r \in Replicas, k \in 1..MaxReplCmds : ReplicaHandle(r, k)
    \/ \E r \in Replicas, buf \in ReplicaClientBuffers : ReplicaClientCommand(r, buf)

SpecReplica == Init /\ [][NextReplica]_vars

\* streams: XADD and XREAD on the master's client connections
NextStream ==
    \/ \E c \in Conns, cmd \in XaddCmds : steps < MaxStreamCmds /\ ReceiveCommand(c, cmd)
    \/ \E c \in Conns, cmd \in XreadCmds : steps < MaxStreamCmds /\ ReceiveXread(c, cmd)
    \/ \E c \in Conns : XreadWake(c)
    \/ TickX

SpecStream == Init /\ [][NextStream]_vars

\* transactions on a master with replicas: MULTI, a SET, EXEC or DISCARD
TxVerbs == {Cmd("multi", <<>>), Cmd("exec", <<>>), Cmd("discard", <<>>)}

NextDiscard ==
    \/ \E c \in Conns, cmd \in TxVerbs : steps < MaxDiscardCmds /\ ReceiveCommand(c, cmd)
    \/ \E c \in Conns : steps < MaxDiscardCmds /\ ReceiveSet(c, Cmd("set", <<"a", "1">>))
    \/ \E c \in Conns : SetWritten(c)
    \/ \E c \in Conns : ExecResumed(c)
    \/ \E r \in Replicas : ReceivePsync(r)
    \/ \E r \in Replicas : PsyncReplied(r)
    \/ \E r \in Replicas, k \in 1..MaxDiscardCmds : ReplicaHandle(r, k)

SpecDiscard == Init /\ [][NextDiscard]_vars

\* the decoder on buffers of several commands
NextCodec == Decode

SpecCodec == InitCodec /\ [][NextCodec]_vars

(* -------------------------------- steps ---------------------------------- *)
\* this step ran _execute for a command of some connection: last' holds the
\* connection, the command and the reply
Dispatched ==
    \/ steps' = steps + 1 /\ pc' = pc
    \/ \E c \in Conns : pc[c] = "write_to_replicas" /\ cur[c].verb = "set" /\ pc'[c] = "idle"
    \/ \E c \in Conns : pc[c] = "add_replica" /\ pc'[c] = "idle"

\* this step ran EXEC with a transaction open, from the start of its loop
\* to the end
ExecStep ==
    /\ Dispatched
    /\ steps' = steps + 1
    /\ transaction_queue.open
    /\ last'.cmd.verb = "exec"

Queued == Wire("simple", "QUEUED")

(* -------------------------------- C1 ------------------------------------- *)
\* C1: while a transaction is open, a command whose verb is neither EXEC nor
\* DISCARD (a second MULTI and an unknown verb included) is not executed: it
\* is appended at the tail of the queue, the reply is the simple string
\* QUEUED and the keyspace is unchanged.
C1_QueuedNotExecuted ==
    [][(Dispatched /\ transaction_queue.open /\ last'.cmd.verb \notin {"exec", "discard"})
         => /\ transaction_queue' = TxList(Append(transaction_queue.items, last'.cmd))
            /\ last'.reply = Queued
            /\ db' = db]_vars

\* a second MULTI and an unknown verb are in the queue, behind a SET that has
\* left the keyspace empty
C1_Witness ==
    /\ transaction_queue.open
    /\ last.reply = Queued
    /\ db = EmptyDb
    /\ \E i, j, k \in 1..Len(transaction_queue.items) :
          /\ transaction_queue.items[i].verb = "multi"
          /\ transaction_queue.items[j].verb = "foo"
          /\ transaction_queue.items[k].verb = "set"

(* -------------------------------- C2 ------------------------------------- *)
RECURSIVE OwnReplies(_, _, _, _)
\* the replies the commands of `items` get when each is run on its own, in
\* order, from keyspace d
OwnReplies(items, i, d, q) ==
    IF i > Len(items) THEN <<>>
    ELSE LET r == ExecuteCall(d, q, items[i])
         IN  <<execute(r)>> \o OwnReplies(items, i + 1, r.db, r.tq)

\* C2: EXEC with a transaction open replies with one array whose i-th element
\* is the reply of the i-th queued command, of the kind that command has when
\* run on its own (stated for queues of known verbs).
C2_ExecKeepsReplyKinds ==
    [][(ExecStep /\ \A i \in 1..Len(transaction_queue.items) :
                       transaction_queue.items[i].verb \in KlsMap)
         => /\ last'.reply.kind = "array"
            /\ last'.reply.elems =
                  OwnReplies(transaction_queue.items, 1, db, transaction_queue)]_vars

(* -------------------------------- C3 ------------------------------------- *)
RECURSIVE RunAll(_, _, _, _)
\* every command of `items` run in order from keyspace d, a failed one
\* leaving its error message at its position and the others still running
RunAll(items, i, d, q) ==
    IF i > Len(items) THEN [db |-> d, errors |-> <<>>]
    ELSE LET r == ExecuteCall(d, q, items[i])
             failed == r.raised \/ r.type = "ERROR"
             rest == RunAll(items, i + 1, IF failed THEN d ELSE r.db, IF failed THEN q ELSE r.tq)
         IN  [db |-> rest.db,
              errors |-> <<IF failed THEN r.data.s ELSE "">> \o rest.errors]

\* C3: when a queued command fails during EXEC, EXEC still executes every
\* other queued command and returns an array with the error at the failed
\* command's position.
C3_ExecRunsPastErrors ==
    [][ExecStep =>
         LET want == RunAll(transaction_queue.items, 1, db, transaction_queue)
         IN  /\ last'.reply.kind = "array"
             /\ Len(last'.reply.elems) = Len(transaction_queue.items)
             /\ db' = want.db
             /\ \A i \in 1..Len(transaction_queue.items) :
                   want.errors[i] # "" => last'.reply.elems[i].s = want.errors[i]]_vars

(* -------------------------------- C4 ------------------------------------- *)
\* C4: the transaction queue is non-null exactly when a MULTI has been
\* received and no EXEC or DISCARD has been received after it.
C4_QueueOpenIffInMulti == transaction_queue.open = inMulti

(* -------------------------------- C5 ------------------------------------- *)
\* C5: while connection A has a transaction open, a command arriving on
\* another connection B is executed at once and gets its normal reply, never
\* QUEUED, and is not added to A's queue; an EXEC or DISCARD sent by B
\* neither runs nor closes A's transaction.
C5_TransactionPerConnection ==
    [][(Dispatched /\ transaction_queue.open /\ last'.conn # txOwner)
         => /\ last'.reply # Queued
            /\ transaction_queue' = transaction_queue]_vars

(* -------------------------------- C6 ------------------------------------- *)
\* C6: on the master, the forwarding of a SET's raw bytes to the replicas
\* happens after the SET has been applied to the master's own keyspace: once
\* the frame is on a replica's writer, the keyspace holds the value.
C6_ForwardAfterApply ==
    \A c \in PendingSets :
        (\E r \in Replicas : registry[r].registered /\ link[r] # <<>>)
            => db[cur[c].args[1]] = StrVal(cur[c].args[2])

(* -------------------------------- C7 ------------------------------------- *)
\* the tasks suspended in broadcast
InFlight == {c \in Conns : pc[c] = "write_to_replicas"}

\* the frame a suspended task handed to broadcast
FrameOf(c) == IF cur[c].verb = "set" THEN cur[c] ELSE GetAck

RECURSIVE InFlightBytes(_)
InFlightBytes(S) ==
    IF S = {} THEN 0
    ELSE LET c == CHOOSE x \in S : TRUE
         IN  FrameLen(FrameOf(c)) + InFlightBytes(S \ {c})

\* C7 as stated: whenever no broadcast is in flight, master_offset equals the
\* sum of the raw encoded lengths of the SET frames forwarded since startup.
C7_OffsetIsSetBytes ==
    InFlight = {} => replication_offset = fwdSetBytes

\* C7 amended: master_offset equals the sum of the lengths of every frame
\* whose write_to_replicas call has returned, the SET frames and the REPLCONF
\* GETACK frames of WAIT alike.
C7_OffsetIsForwardedBytes ==
    replication_offset + InFlightBytes(InFlight) = fwdSetBytes + fwdAckBytes

\* a SET and the GETACK of a WAIT have both been counted
C7_Witness ==
    /\ InFlight = {}
    /\ fwdSetBytes = FrameLen(Cmd("set", <<"a", "1">>))
    /\ fwdAckBytes = FrameLen(GetAck)
    /\ replication_offset = 64

(* -------------------------------- C8 ------------------------------------- *)
\* C8: every replica record satisfies acked_offset <= master_offset (stated
\* for the states with no broadcast in flight).
C8_AckedLeqOffset ==
    InFlight = {} =>
        \A r \in get_replicas(registry) : registry[r].acked_offset <= replication_offset

(* -------------------------------- C9 ------------------------------------- *)
\* C9: on a replica, bytes_processed equals the sum of the byte lengths of the
\* commands it has consumed from its master; commands from ordinary clients
\* are not part of that sum.
C9_BytesFromMaster ==
    \A r \in Replicas : bytes_processed[r] = fromMaster[r]

(* -------------------------------- C10 ------------------------------------ *)
\* this step is a pass of connection c's while loop in wait()
PollStep(c) ==
    \/ pc[c] = "write_to_replicas" /\ cur[c].verb = "wait" /\ pc'[c] # "write_to_replicas"
    \/ pc[c] = "sleep" /\ wt[c].sleep = 0 /\ (pc'[c] = "idle" \/ wt'[c].sleep > 0)

\* this step is a WAIT of connection c returning from its entry
EntryReturn(c) ==
    /\ steps' = steps + 1
    /\ pc' = pc
    /\ last'.conn = c
    /\ last'.cmd.verb = "wait"

IntReply(n) == Wire("int", IntToStr(n))

\* a pass returns exactly when enough replicas are synced or the deadline
\* has passed, with the count of that pass as an integer reply
PollRule(c) ==
    PollStep(c) =>
        LET n == check_replica_sync(registry, wt[c].target)
        IN  /\ (pc'[c] = "idle") = (n >= wt[c].required \/ wt[c].left = 0)
            /\ pc'[c] = "idle" => last' = [conn |-> c, cmd |-> cur[c], reply |-> IntReply(n)]

\* C10 as stated: every WAIT returns at the first poll that finds numreplicas
\* replicas synced or at the first poll at or after its timeout, with the
\* synced count of that poll as an integer.
C10_ReturnsAtPollOrDeadline ==
    [][\A c \in Conns :
          /\ PollRule(c)
          /\ EntryReturn(c) =>
                /\ last'.reply = IntReply(check_replica_sync(registry, replication_offset))
                /\ \/ check_replica_sync(registry, replication_offset) >= StrToInt(last'.cmd.args[1])
                   \/ Units(StrToInt(last'.cmd.args[2])) = 0]_vars

\* C10 amended: a WAIT that finds master_offset 0 returns at once the number
\* of registered replicas; every other WAIT returns at the first poll that
\* finds numreplicas replicas synced or at the first poll at or after its
\* timeout, with the synced count of that poll as an integer; and every WAIT
\* returns.
C10_WaitReturns ==
    /\ [][\A c \in Conns :
             /\ PollRule(c)
             /\ EntryReturn(c) =>
                   /\ replication_offset = 0
                   /\ last'.reply = IntReply(Cardinality(get_replicas(registry)))]_vars
    /\ \A c \in Conns : (c \in Waiting) ~> (pc[c] = "idle")

\* a WAIT 1 150 that sent its GETACK has returned 0 on its deadline
C10_Witness ==
    /\ last.cmd = Cmd("wait", <<"1", "150">>)
    /\ last.reply = IntReply(0)
    /\ fwdAckBytes = FrameLen(GetAck)
    /\ \A c \in Conns : pc[c] = "idle"

(* -------------------------------- C11 ------------------------------------ *)
\* this step is the entry of a WAIT of connection c that goes on to send its
\* REPLCONF GETACK
WaitEntry(c) == c \notin Waiting /\ c \in Waiting'

\* this step leaves connection c inside its wait()
WaitGoesOn(c) == c \in Waiting /\ c \in Waiting'

\* C11 as stated: the target of a WAIT is read at its entry, before its
\* GETACK is sent: it includes the bytes of every write handed to the
\* replicas before the WAIT, excludes the WAIT's own GETACK, and stays as it
\* is while other connections forward writes during the wait.
C11_TargetCoversForwarded ==
    [][\A c \in Conns :
          /\ WaitEntry(c) =>
                /\ wt'[c].target >= fwdSetBytes
                /\ wt'[c].target <= fwdSetBytes + fwdAckBytes
          /\ WaitGoesOn(c) => wt'[c].target = wt[c].target]_vars

\* C11 amended: the target of a WAIT is master_offset as read at its entry,
\* the bytes of every frame whose write_to_replicas call had returned by then
\* (a write still suspended in its broadcast is not counted); it excludes the
\* WAIT's own GETACK and stays as it is while other connections forward
\* writes during the wait.
C11_TargetIsEntryOffset ==
    [][\A c \in Conns :
          /\ WaitEntry(c) =>
                wt'[c].target = fwdSetBytes + fwdAckBytes - InFlightBytes(InFlight)
          /\ WaitGoesOn(c) => wt'[c].target = wt[c].target]_vars

\* a WAIT that read its target after one SET sleeps while its own GETACK and
\* the SET of another connection have been counted into master_offset
C11_Witness ==
    \E c \in Conns :
        /\ pc[c] = "sleep"
        /\ wt[c].target = FrameLen(Cmd("set", <<"a", "1">>))
        /\ fwdSetBytes = 2 * FrameLen(Cmd("set", <<"a", "1">>))
        /\ replication_offset = 2 * FrameLen(Cmd("set", <<"a", "1">>)) + FrameLen(GetAck)

(* -------------------------------- C12 ------------------------------------ *)
\* the replicas registered with the master
Registered == {r \in Replicas : registry[r].registered}

\* C12: a WAIT n t that finds master_offset 0 at its entry returns in that
\* same step the number of registered replicas, for every n and t, writes no
\* REPLCONF GETACK to any replica and leaves master_offset at 0.
C12_ZeroOffsetShortCircuit ==
    [][\A c \in Conns :
          (replication_offset = 0 /\ (EntryReturn(c) \/ WaitEntry(c)))
             => /\ EntryReturn(c)
                /\ last'.reply = IntReply(Cardinality(Registered))
                /\ link' = link
                /\ fwdAckBytes' = fwdAckBytes
                /\ replication_offset' = 0]_vars

\* WAIT 1 150 on a master with offset 0 and no replica has returned 0, and no
\* GETACK was ever sent
C12_Witness ==
    /\ last.cmd = Cmd("wait", <<"1", "150">>)
    /\ last.reply = IntReply(0)
    /\ Registered = {}
    /\ replication_offset = 0
    /\ fwdAckBytes = 0
    /\ \A c \in Conns : pc[c] = "idle"

(* -------------------------------- C13 ------------------------------------ *)
\* connection c is inside a wait() with numreplicas = 0
WaitsForNone(c) == c \in Waiting /\ wt[c].required = 0

\* the replicas whose acknowledged offset has reached target
Synced(target) == {r \in Registered : registry[r].acked_offset >= target}

\* C13 as stated: WAIT with numreplicas = 0 never sleeps, and its result is
\* the number of replicas registered when it returns, whatever master_offset
\* is and whatever the replicas have acknowledged.
C13_WaitZeroCountsRegistered ==
    [][\A c \in Conns :
          /\ (EntryReturn(c) /\ last'.cmd.args[1] = "0")
                => last'.reply = IntReply(Cardinality(Registered))
          /\ WaitsForNone(c) => pc'[c] # "sleep"
          /\ (WaitsForNone(c) /\ PollStep(c))
                => last' = [conn |-> c, cmd |-> cur[c],
                            reply |-> IntReply(Cardinality(Registered))]]_vars

\* C13 amended: WAIT with numreplicas = 0 never sleeps; when master_offset is
\* 0 at its entry its result is the number of registered replicas, otherwise
\* it returns from the first pass of its loop the number of replicas whose
\* acked_offset has reached the offset read at entry.
C13_WaitZeroCountsSynced ==
    [][\A c \in Conns :
          /\ (EntryReturn(c) /\ last'.cmd.args[1] = "0")
                => replication_offset = 0 /\ last'.reply = IntReply(Cardinality(Registered))
          /\ WaitsForNone(c) => pc'[c] # "sleep"
          /\ (WaitsForNone(c) /\ PollStep(c))
                => last' = [conn |-> c, cmd |-> cur[c],
                            reply |-> IntReply(Cardinality(Synced(wt[c].target)))]]_vars

\* WAIT 0 150 has returned 0 after its GETACK, with a replica registered
\* that has acknowledged nothing of the SET before it
C13_Witness ==
    /\ last.cmd = Cmd("wait", <<"0", "150">>)
    /\ last.reply = IntReply(0)
    /\ Registered = Replicas
    /\ fwdSetBytes = FrameLen(Cmd("set", <<"a", "1">>))
    /\ replication_offset = FrameLen(Cmd("set", <<"a", "1">>)) + FrameLen(GetAck)
    /\ \A c \in Conns : pc[c] = "idle"

(* -------------------------------- C14 ------------------------------------ *)
\* the positions of the REPLCONF commands in a buffer
ReplconfAt(cmds) == {i \in 1..Len(cmds) : cmds[i].verb = "replconf"}

\* the position of the last SET of key k in a buffer, 0 if there is none
LastSetOf(cmds, k) ==
    LET S == {i \in 1..Len(cmds) : cmds[i].verb = "set" /\ cmds[i].args[1] = k}
    IN  IF S = {} THEN 0 ELSE CHOOSE i \in S : \A j \in S : j <= i

\* C14: for a buffer of commands propagated from the master, what the replica
\* sends upstream is exactly the replies of the REPLCONF commands of the
\* buffer (a REPLCONF ACK array each); SET and every other propagated command
\* has been executed against the replica's keyspace and left no reply.
C14_OnlyReplconfReplies ==
    \A r \in Replicas :
        rlast[r].propogated =>
            /\ ~rlast[r].raised
            /\ Len(rlast[r].responses) = Cardinality(ReplconfAt(rlast[r].cmds))
            /\ \A i \in 1..Len(rlast[r].responses) : IsAck(rlast[r].responses[i])
            /\ \A k \in Keys :
                  LastSetOf(rlast[r].cmds, k) # 0 =>
                      rdb[r][k] = StrVal(rlast[r].cmds[LastSetOf(rlast[r].cmds, k)].args[2])

(* -------------------------------- C15 ------------------------------------ *)
\* this step writes a propagated frame to replica r's writer
FrameWritten(r) == Len(link'[r]) > Len(link[r])

\* C15: a propagated write or a REPLCONF GETACK is written to a replica's
\* writer only once that replica's FULLRESYNC reply has been written to it.
C15_FullresyncFirst ==
    [][\A r \in Replicas : FrameWritten(r) => rpc[r] = "synced"]_vars

(* -------------------------------- C16 ------------------------------------ *)
InvalidCommand == Wire("error", "Invalid command")

\* C16: a command whose verb has no handler is answered with the RESP error
\* as an ordinary reply, on a master and on a replica: no exception leaves
\* handle(), and on a replica every command of the buffer still gets its
\* reply.
C16_UnknownVerbIsErrorReply ==
    /\ (last.cmd.verb \notin KlsMap \cup {"none"} /\ last.reply # Queued)
          => last.reply = InvalidCommand
    /\ \A r \in Replicas :
          /\ ~rlast[r].raised
          /\ ~rlast[r].propogated => Len(rlast[r].responses) = Len(rlast[r].cmds)

(* -------------------------------- C17 ------------------------------------ *)
NullBulk == Wire("nullbulk", "")

\* this step is an XREAD of connection c returning, from its entry or from a
\* later pass of its loop; xr'[c] holds its locals
XreadReturns(c) ==
    \/ steps' = steps + 1 /\ pc' = pc /\ last'.conn = c /\ last'.cmd.verb = "xread"
    \/ pc[c] = "xread_sleep" /\ pc'[c] = "idle"

\* C17: a blocking XREAD (BLOCK ms) returns the null bulk string only when
\* ms milliseconds have passed since the call with no entry above its start
\* id, and with BLOCK 0 it never returns the null bulk string.
C17_NullOnlyAtDeadline ==
    [][\A c \in Conns :
          (XreadReturns(c) /\ last'.reply = NullBulk /\ xr'[c].block_time # -1)
             => /\ xr'[c].block_time # 0
                /\ xr'[c].elapsed >= xr'[c].block_time
                /\ get_range_stream(db, xr'[c].key, xr'[c].start) = <<>>]_vars

(* -------------------------------- C18 ------------------------------------ *)
\* the ids of a sequence of entries as a set
Range(seq) == {seq[i] : i \in 1..Len(seq)}

\* the entries the stream of an xread() has got since the call
Appended(x) == {id \in Range(db[x.key].ids) : id \notin Range(x.seen)}

\* C18: a blocking XREAD with start id `$` gets a reply, never an exception;
\* its lower bound stays as resolved at the call over every pass; it returns
\* at the first pass that finds entries appended since the call, and its
\* reply holds all of them and no entry the stream held at the call.
C18_DollarIsTopAtCall ==
    [][\A c \in Conns :
          /\ (XreadReturns(c) /\ IndexOf(last'.cmd.args, "$") # 0)
                => /\ last'.reply.kind # "raise"
                   /\ last'.reply.kind = "array"
                         => {last'.reply.elems[i].s : i \in 1..Len(last'.reply.elems)}
                               = {IdStr(id) : id \in Appended(xr'[c])}
          /\ (pc[c] = "xread_sleep" /\ IndexOf(cur[c].args, "$") # 0)
                => /\ xr'[c].start = xr[c].start
                   /\ (xr[c].sleep = 0 /\ xr'[c] # xr[c] /\ Appended(xr[c]) # {})
                         => pc'[c] = "idle" /\ last'.reply.kind = "array"]_vars

(* -------------------------------- C19 ------------------------------------ *)
RECURSIVE SumLengths(_, _)
SumLengths(out, i) ==
    IF i > Len(out) THEN 0 ELSE out[i].byte_length + SumLengths(out, i + 1)

\* C19: multi_command_decoder applied to the concatenation of the encodings
\* of a sequence of command arrays returns, in order, one (argv,
\* byte_length) pair per command, argv being the command's elements and
\* byte_length the length of its own encoding (the length counted for a frame
\* of those elements), and the byte_lengths sum to the length of the buffer.
C19_DecoderRoundTrip ==
    codec.done =>
        /\ Len(codec.out) = Len(codec.cmds)
        /\ \A i \in 1..Len(codec.cmds) :
              /\ codec.out[i].argv = codec.cmds[i]
              /\ codec.out[i].byte_length = Len(EncodeArray(codec.cmds[i]))
              /\ codec.out[i].byte_length = EncLen(codec.cmds[i])
        /\ SumLengths(codec.out, 1) = Len(Concat(codec.cmds, 1))

\* the buffer of test_complex_multi_command has been decoded into its three
\* commands of 37, 39 and 45 bytes
C19_Witness ==
    /\ codec.done
    /\ Len(codec.out) = 3
    /\ codec.out[1].argv[2] = <<"G", "E", "T", "A", "C", "K">>
    /\ codec.out[1].byte_length = 37
    /\ codec.out[2].byte_length = 39
    /\ codec.out[3].byte_length = 45

(* -------------------------------- C20 ------------------------------------ *)
\* every SET the master has received so far was queued and then dropped by
\* DISCARD: none is in flight, none is waiting in an open queue, and none
\* has been applied (a SET a 1 that runs, at once or in EXEC, sets a)
AllSetsDiscarded ==
    /\ InFlight = {}
    /\ ~transaction_queue.open
    /\ db = EmptyDb

\* what the servers hold of SETs when no SET was ever sent
AsIfNeverSent ==
    /\ replication_offset = 0
    /\ fwdSetBytes = 0
    /\ \A r \in Replicas :
          /\ \A i \in 1..Len(link[r]) : link[r][i].verb # "set"
          /\ rdb[r] = EmptyDb

\* this step is an EXEC that runs a queue holding a SET
ExecRunsSet ==
    /\ Dispatched
    /\ last'.cmd.verb = "exec"
    /\ \E i \in 1..Len(transaction_queue.items) : transaction_queue.items[i].verb = "set"

\* C20: a SET queued inside a transaction and then dropped by DISCARD has no
\* effect anywhere: the master's keyspace, the bytes written to the replicas
\* (hence the replicas' keyspaces) and master_offset are as if that SET had
\* never been sent; and a queued SET run by EXEC reaches the replicas exactly
\* once: EXEC writes it to no replica a second time.
C20_DiscardedSetLeavesNoTrace ==
    /\ [](AllSetsDiscarded => AsIfNeverSent)
    /\ [][ExecRunsSet => /\ link' = link
                         /\ fwdSetBytes' = fwdSetBytes
                         /\ replication_offset' = replication_offset]_vars

(* -------------------------------- C21 ------------------------------------ *)
\* this step is a handle() of replica r on a buffer read from its master
PropagatedRun(r) == fromMaster'[r] # fromMaster[r]

\* the j-th smallest element of a set of positions
Nth(S, j) == CHOOSE i \in S : Cardinality({x \in S : x <= i}) = j

\* the offset a REPLCONF ACK reply carries
AckValue(w) == StrToInt(w.elems[3].s)

\* the bytes of the commands before position i of a buffer
BytesBefore(buf, i) == SumFrameLen(SubSeq(buf, 1, i - 1), 1)

\* C21: the offset a replica reports in its REPLCONF ACK reply to a REPLCONF
\* GETACK counts every command that preceded the GETACK in the master's
\* stream, those earlier in the same buffer included, and does not count the
\* GETACK frame itself: it is bytes_processed as the buffer found it plus the
\* bytes of the commands before the GETACK in the buffer, and the GETACK's
\* length is in bytes_processed once the buffer is done.
C21_AckExcludesGetack ==
    [][\A r \in Replicas :
         (PropagatedRun(r) /\ ~rtq[r].open) =>
             LET buf == rlast'[r].cmds
                 G == ReplconfAt(buf)
             IN  /\ Len(rlast'[r].responses) = Cardinality(G)
                 /\ \A j \in 1..Cardinality(G) :
                       /\ IsAck(rlast'[r].responses[j])
                       /\ AckValue(rlast'[r].responses[j])
                             = bytes_processed[r] + BytesBefore(buf, Nth(G, j))
                       /\ AckValue(rlast'[r].responses[j])
                             >= fromMaster[r] + BytesBefore(buf, Nth(G, j))
                 /\ bytes_processed'[r] = bytes_processed[r] + SumFrameLen(buf, 1)]_vars

\* a replica has read SET a 1 and the GETACK of a WAIT as one buffer and has
\* answered with the SET's 27 bytes; both frames are counted afterwards
C21_Witness ==
    \E r \in Replicas :
        /\ rlast[r].propogated
        /\ rlast[r].cmds = <<Cmd("set", <<"a", "1">>), GetAck>>
        /\ Len(rlast[r].responses) = 1
        /\ IsAck(rlast[r].responses[1])
        /\ AckValue(rlast[r].responses[1]) = FrameLen(Cmd("set", <<"a", "1">>))
        /\ bytes_processed[r] = FrameLen(Cmd("set", <<"a", "1">>)) + FrameLen(GetAck)

(* -------------------------------- C22 ------------------------------------ *)
\* replica r has finished its handshake, has read and executed every frame
\* the master wrote to it, the last of them a REPLCONF GETACK it answered,
\* and the master has read every reply of r and holds the offset of the
\* last one
CaughtUp(r) ==
    /\ r \in Registered
    /\ rpc[r] = "synced"
    /\ link[r] = <<>>
    /\ uplink[r] = <<>>
    /\ rlast[r].propogated
    /\ ~rlast[r].raised
    /\ rlast[r].cmds # <<>>
    /\ rlast[r].cmds[Len(rlast[r].cmds)] = GetAck
    /\ rlast[r].responses # <<>>
    /\ IsAck(rlast[r].responses[Len(rlast[r].responses)])
    /\ registry[r].acked_offset = AckValue(rlast[r].responses[Len(rlast[r].responses)])

\* this step applies a reply of replica r on the master: the first of those
\* it read
AckApplied(r) == Len(uplink'[r]) < Len(uplink[r])

\* C22: a replica that registered through PSYNC at any master_offset, has
\* since received and executed every byte the master broadcast to it, and
\* whose REPLCONF ACK answering a WAIT's GETACK has been applied, is counted
\* as synced by that WAIT; and applying an ACK never lowers a record's
\* acked_offset below the offset it was registered with (a record starts at
\* that offset and the offsets a replica reports never decrease, so that an
\* ACK lowers acked_offset below it exactly when it lowers acked_offset).
C22_CaughtUpIsSynced ==
    /\ [](\A c \in Waiting, r \in Replicas : CaughtUp(r) => r \in Synced(wt[c].target))
    /\ [][\A r \in Replicas :
            AckApplied(r) => registry'[r].acked_offset >= registry[r].acked_offset]_vars

====
